---------------------------- MODULE Spec2Model ----------------------------
(***************************************************************************)
(* The persistent agent-state layer of the onefuzz agent: the failure      *)
(* store (failure.rs) and the reboot controller (reboot.rs), over a        *)
(* filesystem that outlives the agent process.                             *)
(*                                                                         *)
(* One agent process runs per host.  It owns one Reboot value (its         *)
(* machine_id) and runs the reboot controller's operations one at a time;  *)
(* the asynchronous ones (save_context, load_context) are split at their   *)
(* suspension points, so that cancellation, process death and calls to     *)
(* the failure store can fall between the steps.                           *)
(***************************************************************************)
EXTENDS Naturals, Sequences, FiniteSets, TLC

(* ------------------------------ bounds --------------------------------- *)

\* Machine ids are 1..NumMachines.
NumMachines == 2

\* Work sets are 0..NumWorkSets; work set 0 is one whose encoding fails.
NumWorkSets == 2

\* The wait of invoke advances by this many seconds per step.
TickSecs == 200

Machines == 1 .. NumMachines

WorkSetValues == 0 .. NumWorkSets

\* The errors handed to save_failure: a message and its chain of causes.
Errors == { <<"boom", "disk full">>, <<"oops">> }

(* ------------------------ program constants ---------------------------- *)

\* wait_for_reboot: Duration::from_secs(60 * 10)
RebootWaitSecs == 60 * 10

(* ------------------------------ paths ---------------------------------- *)

\* Display of a Uuid with a bug: every id is shown as the nil id.
UuidDisplayNil(m) == "nil"

\* Display of a Uuid.
UuidDisplay(m) == ToString(m)

\* onefuzz::fs::onefuzz_root(): the StateRoot directory.  The model follows
\* the runs in which it resolves.
onefuzz_root == "onefuzz_root"

\* onefuzz::fs::onefuzz_logs(): the LogRoot directory.  The model follows
\* the runs in which it resolves.
onefuzz_logs == "onefuzz_logs"

\* PathBuf::join
Join(dir, name) == <<dir, name>>

\* path.display().to_string() of a path made of a directory and a file name
PathDisplay(p) == p[1] \o "/" \o p[2]

reboot_context_path(m) ==
    Join(onefuzz_root, <<"reboot_context_", UuidDisplay(m), ".json">>)

\* failure_path with a bug: the record is kept in the reboot context file.
failure_path_is_context_path(m) == reboot_context_path(m)

failure_path(m) ==
    Join(onefuzz_root, <<"onefuzz-agent-failure-", UuidDisplay(m), ".txt">>)

(* --------------------------- the filesystem ---------------------------- *)

\* A filesystem is a function from the paths of the existing files to their
\* bytes (a sequence).

\* Truncate with a bug: the file is opened without truncation, so its old
\* bytes stay.
TruncateKeepsContent(f, path) ==
    [p \in DOMAIN f \cup {path} |->
        IF p = path /\ p \notin DOMAIN f THEN <<>> ELSE f[p]]

\* File::create on path: the file exists and is empty afterwards.
Truncate(f, path) ==
    [p \in DOMAIN f \cup {path} |-> IF p = path THEN <<>> ELSE f[p]]

\* write_all of bytes from offset 0 of the open file: the bytes replace
\* the first Len(bytes) bytes of the file, and what lies beyond them stays.
WriteAt0(f, path, bytes) ==
    [p \in DOMAIN f |->
        IF p = path
        THEN bytes \o SubSeq(f[p], Len(bytes) + 1, Len(f[p]))
        ELSE f[p]]

\* remove_file
Unlink(f, path) == [p \in DOMAIN f \ {path} |-> f[p]]

(* ------------------------------ LogRoot -------------------------------- *)

\* An entry of LogRoot that is a regular file, and one that is a directory.
LogFile(name, bytes) == [name |-> name, kind |-> "file", bytes |-> bytes]

LogSubdir(name) == [name |-> name, kind |-> "dir", bytes |-> <<>>]

\* LogRoot with one file of valid UTF-8 and one of invalid bytes.
MixedLogs ==
    << LogFile("a.log", <<"hello">>), LogFile("b.log", <<"0xff", "0xfe">>) >>

\* The directories read_logs is run on: each is the sequence of the entries
\* of LogRoot in the order the OS enumerates them, which is not sorted.
LogDirs ==
    { <<>>,
      MixedLogs,
      << LogFile("b.log", <<"warn", "0xff">>), LogFile("a.log", <<>>) >>,
      << LogFile("a.log", <<"hello">>), LogSubdir("old") >> }

(* --------------------------- serialization ----------------------------- *)

RebootContext(w) == [work_set |-> w]

\* The Serialize implementation of WorkSet (crate::work) as JSON text.
WorkSetJson(w) == "W" \o ToString(w)

\* Whether serde_json can encode the work set.
Encodable(w) == w > 0

\* to_vec with a bug: the payload written is always that of work set 1.
to_vec_fixed_payload(c) ==
    [ok   |-> Encodable(c.work_set),
     data |-> IF Encodable(c.work_set)
              THEN <<"{", "\"work_set\"", ":", WorkSetJson(1), "}">>
              ELSE <<>>]

\* serde_json::to_vec(&ctx)
to_vec(c) ==
    [ok   |-> Encodable(c.work_set),
     data |-> IF Encodable(c.work_set)
              THEN <<"{", "\"work_set\"", ":", WorkSetJson(c.work_set), "}">>
              ELSE <<>>]

\* serde_json::from_slice::<RebootContext>(&data)
from_slice(bytes) ==
    LET ws == { w \in WorkSetValues :
                   /\ Encodable(w)
                   /\ Len(bytes) = 5
                   /\ bytes[1] = "{"
                   /\ bytes[2] = "\"work_set\""
                   /\ bytes[3] = ":"
                   /\ bytes[4] = WorkSetJson(w)
                   /\ bytes[5] = "}" }
    IN  IF ws = {}
        THEN [ok |-> FALSE, ctx |-> RebootContext(0)]
        ELSE [ok |-> TRUE, ctx |-> RebootContext(CHOOSE w \in ws : TRUE)]

\* format!("{:?}", err) of an anyhow::Error: the message, then the causes.
DebugFmt(e) ==
    IF Len(e) = 1 THEN <<e[1]>> ELSE <<e[1], "Caused by:">> \o Tail(e)

\* Bytes that are not valid UTF-8.
InvalidBytes == {"0xff", "0xfe"}

\* String::from_utf8_lossy(&content).to_string()
from_utf8_lossy(bytes) ==
    [i \in 1 .. Len(bytes) |->
        IF bytes[i] \in InvalidBytes THEN "U+FFFD" ELSE bytes[i]]

(* ------------------------------- state --------------------------------- *)

VARIABLES
    fs,          \* the files of StateRoot: path -> bytes
    machine_id,  \* Reboot.machine_id of the agent process
    logs,        \* the entries of LogRoot, in the order read_dir yields them
    pc,          \* where the agent's reboot-controller call stands
    ctx,         \* save_context: its argument; load_context: the parsed value
    data,        \* save_context: the encoded bytes; load_context: the bytes read
    io,          \* the result of the call's last filesystem operation
    slept,       \* seconds wait_for_reboot has slept
    ret,         \* what the last reboot-controller call returned
    fret,        \* what the last failure-store call returned
    armed,       \* history: <<c>> when the context file was last changed by a
                 \* save_context(c) that returned Ok, <<>> otherwise
    consumed,    \* history: loads that returned Some since the file was last written
    died,        \* history: where the process last died since armed was set:
                 \* "" (it did not), "invoke" (inside invoke) or "outside"
    lastFail,    \* history: per machine, <<e>> when the failure file was last
                 \* changed by a save_failure(e) that returned Ok
    replaced     \* history: the paths whose last write returned Ok and found a
                 \* file in place

vars == <<fs, machine_id, logs, pc, ctx, data, io, slept, ret, fret, armed,
          consumed, died, lastFail, replaced>>

\* What no operation of the agent changes: the id of its host, and LogRoot,
\* which only the logger writes.
host == <<machine_id, logs>>

locals == <<ctx, data, io, slept>>

\* The locals of a call that is not running.
NoLocals == ctx' = [work_set |-> 0] /\ data' = <<>> /\ io' = "none" /\ slept' = 0

history == <<armed, consumed, died, lastFail, replaced>>

NoCtx == RebootContext(0)

\* A return value of the reboot controller.  kind: "none" (nothing returned
\* yet), "pending" (the call is running), "ok" (Ok(())), "absent" (Ok(None)),
\* "some" (Ok(Some(ctx))), "err" (Err(err)), "cancelled" (the call's future
\* was dropped).  from, restarted: the values of armed and died when the
\* call began.
Ret(op, kind, c, err, from, restarted) ==
    [op |-> op, kind |-> kind, ctx |-> c, err |-> err, from |-> from,
     restarted |-> restarted]

NoRet == Ret("none", "none", NoCtx, "", <<>>, "")

Pending(op) == Ret(op, "pending", NoCtx, "", armed, died)

Return(kind, c, err) == Ret(ret.op, kind, c, err, ret.from, ret.restarted)

\* A return value of the failure store.
FRet(op, m, kind, text) == [op |-> op, m |-> m, kind |-> kind, text |-> text]

NoFRet == FRet("none", 0, "none", <<>>)

path == reboot_context_path(machine_id)

\* The regular files of LogRoot: path -> bytes.
LogFiles ==
    LET files == { i \in 1 .. Len(logs) : logs[i].kind = "file" }
    IN  [p \in { Join(onefuzz_logs, logs[i].name) : i \in files } |->
            logs[CHOOSE i \in files : Join(onefuzz_logs, logs[i].name) = p].bytes]

\* Every file the process can read: those of StateRoot and those of LogRoot.
disk == fs @@ LogFiles

\* The agent process has started on a host whose StateRoot is empty.
Started ==
    /\ fs = [p \in {} |-> <<>>]
    /\ machine_id \in Machines
    /\ pc = "idle"
    /\ ctx = NoCtx
    /\ data = <<>>
    /\ io = "none"
    /\ slept = 0
    /\ ret = NoRet
    /\ fret = NoFRet
    /\ armed = <<>>
    /\ consumed = 0
    /\ died = ""
    /\ lastFail = [m \in Machines |-> <<>>]
    /\ replaced = {}

\* The host of the reboot controller's runs: its LogRoot holds the two
\* files of MixedLogs.
Init == Started /\ logs = MixedLogs

\* The hosts of the failure store's runs: LogRoot is any of LogDirs.
StoreInit == Started /\ logs \in LogDirs


(* ------------------- reboot controller: save_context ------------------- *)

\* SaveStart with a bug: the file is created before the value is encoded.
SaveStartCreatesFirst(c) ==
    /\ pc = "idle"
    /\ LET enc == to_vec(c)
       IN  IF enc.ok
           THEN /\ pc' = "save_write"
                /\ ctx' = c
                /\ data' = enc.data
                /\ ret' = Pending("save")
                /\ UNCHANGED <<fs, io, slept>>
           ELSE /\ pc' = "idle"
                /\ ret' = Ret("save", "err", NoCtx, "serialize", armed, died)
                /\ fs' = Truncate(fs, path)
                /\ UNCHANGED locals
    /\ UNCHANGED <<host, fret, history>>

\* save_context up to its suspension in fs::write: the path, the encoding.
SaveStart(c) ==
    /\ pc = "idle"
    /\ LET enc == to_vec(c)
       IN  IF enc.ok
           THEN /\ pc' = "save_write"
                /\ ctx' = c
                /\ data' = enc.data
                /\ ret' = Pending("save")
                /\ UNCHANGED <<io, slept>>
           ELSE /\ pc' = "idle"
                /\ ret' = Ret("save", "err", NoCtx, "serialize", armed, died)
                /\ UNCHANGED locals
    /\ UNCHANGED <<fs, host, fret, history>>

\* fs::write, first half: the file is created or truncated, or cannot be.
SaveOpen ==
    /\ pc = "save_write"
    /\ \/ /\ fs' = Truncate(fs, path)
          /\ pc' = "save_writing"
          /\ armed' = <<>>
          /\ consumed' = 0
          /\ died' = ""
          /\ replaced' = replaced \ {path}
          /\ io' = IF path \in DOMAIN fs THEN "replacing" ELSE "creating"
       \/ /\ io' = "write_err"
          /\ pc' = "save_write_done"
          /\ UNCHANGED <<fs, armed, consumed, died, replaced>>
    /\ UNCHANGED <<host, ctx, data, slept, ret, fret, lastFail>>

\* fs::write, second half: the bytes are written, all of them or, when the
\* write fails, the first k of them.
SaveWriteAll ==
    /\ pc = "save_writing"
    /\ \E k \in 0 .. Len(data) :
          /\ fs' = WriteAt0(fs, path, SubSeq(data, 1, k))
          /\ io' = IF k < Len(data) THEN "write_err"
                    ELSE IF io = "replacing" THEN "overwritten" ELSE "written"
    /\ pc' = "save_write_done"
    /\ UNCHANGED <<host, ctx, data, slept, ret, fret, history>>

\* SaveReturn with a bug: the result of fs::write is not looked at.
SaveReturnIgnoresWriteError ==
    /\ pc = "save_write_done"
    /\ pc' = "idle"
    /\ ret' = Return("ok", NoCtx, "")
    /\ armed' = <<ctx>>
    /\ replaced' = IF io = "overwritten" THEN replaced \cup {path} ELSE replaced
    /\ NoLocals
    /\ UNCHANGED <<fs, host, fret, consumed, died, lastFail>>

\* save_context resumes with the result of fs::write and returns.
SaveReturn ==
    /\ pc = "save_write_done"
    /\ pc' = "idle"
    /\ IF io \in {"written", "overwritten"}
       THEN /\ ret' = Return("ok", NoCtx, "")
            /\ armed' = <<ctx>>
            /\ replaced' = IF io = "overwritten"
                            THEN replaced \cup {path}
                            ELSE replaced
       ELSE /\ ret' = Return("err", NoCtx, "unable to save reboot context")
            /\ UNCHANGED <<armed, replaced>>
    /\ NoLocals
    /\ UNCHANGED <<fs, host, fret, consumed, died, lastFail>>

(* ------------------- reboot controller: load_context ------------------- *)

\* load_context up to its suspension in fs::read.
LoadStart ==
    /\ pc = "idle"
    /\ pc' = "load_read"
    /\ ret' = Pending("load")
    /\ UNCHANGED <<fs, host, locals, fret, history>>

\* fs::read: NotFound when there is no file, otherwise the bytes or
\* another error.
LoadRead ==
    /\ pc = "load_read"
    /\ pc' = "load_read_done"
    /\ IF path \notin DOMAIN fs
       THEN /\ io' = "NotFound"
            /\ data' = <<>>
       ELSE \/ /\ io' = "read_ok"
               /\ data' = fs[path]
            \/ /\ io' = "read_err"
               /\ data' = <<>>
    /\ UNCHANGED <<fs, host, ctx, slept, ret, fret, history>>

\* LoadParse with a bug: NotFound is not told from the other read errors.
LoadParseNotFoundIsError ==
    /\ pc = "load_read_done"
    /\ LET parsed == from_slice(data)
       IN  CASE io \in {"NotFound", "read_err"} ->
                  /\ pc' = "idle"
                  /\ ret' = Return("err", NoCtx, "read")
                  /\ NoLocals
             [] io = "read_ok" /\ ~parsed.ok ->
                  /\ pc' = "idle"
                  /\ ret' = Return("err", NoCtx, "parse")
                  /\ NoLocals
             [] io = "read_ok" /\ parsed.ok ->
                  /\ pc' = "load_remove"
                  /\ ctx' = parsed.ctx
                  /\ io' = "none"
                  /\ UNCHANGED <<data, slept, ret>>
    /\ UNCHANGED <<fs, host, fret, history>>

\* LoadParse with a bug: a file that does not parse is removed.
LoadParseRemovesCorrupt ==
    /\ pc = "load_read_done"
    /\ LET parsed == from_slice(data)
       IN  CASE io = "NotFound" ->
                  /\ pc' = "idle"
                  /\ ret' = Return("absent", NoCtx, "")
                  /\ NoLocals
                  /\ UNCHANGED fs
             [] io = "read_err" ->
                  /\ pc' = "idle"
                  /\ ret' = Return("err", NoCtx, "read")
                  /\ NoLocals
                  /\ UNCHANGED fs
             [] io = "read_ok" /\ ~parsed.ok ->
                  /\ pc' = "idle"
                  /\ ret' = Return("err", NoCtx, "parse")
                  /\ NoLocals
                  /\ fs' = Unlink(fs, path)
             [] io = "read_ok" /\ parsed.ok ->
                  /\ pc' = "load_remove"
                  /\ ctx' = parsed.ctx
                  /\ io' = "none"
                  /\ UNCHANGED <<fs, data, slept, ret>>
    /\ UNCHANGED <<host, fret, history>>

\* load_context from the result of fs::read to its suspension in
\* fs::remove_file, or to its return.
LoadParse ==
    /\ pc = "load_read_done"
    /\ LET parsed == from_slice(data)
       IN  CASE io = "NotFound" ->
                  /\ pc' = "idle"
                  /\ ret' = Return("absent", NoCtx, "")
                  /\ NoLocals
             [] io = "read_err" ->
                  /\ pc' = "idle"
                  /\ ret' = Return("err", NoCtx, "read")
                  /\ NoLocals
             [] io = "read_ok" /\ ~parsed.ok ->
                  /\ pc' = "idle"
                  /\ ret' = Return("err", NoCtx, "parse")
                  /\ NoLocals
             [] io = "read_ok" /\ parsed.ok ->
                  /\ pc' = "load_remove"
                  /\ ctx' = parsed.ctx
                  /\ io' = "none"
                  /\ UNCHANGED <<data, slept, ret>>
    /\ UNCHANGED <<fs, host, fret, history>>

\* LoadRemove with a bug: success is reported and the file stays.
LoadRemoveKeepsFile ==
    /\ pc = "load_remove"
    /\ pc' = "load_remove_done"
    /\ io' = "removed"
    /\ armed' = <<>>
    /\ died' = ""
    /\ UNCHANGED <<fs, host, ctx, data, slept, ret, fret, consumed,
                   lastFail, replaced>>

\* fs::remove_file: the file is removed, or cannot be.
LoadRemove ==
    /\ pc = "load_remove"
    /\ pc' = "load_remove_done"
    /\ \/ /\ path \in DOMAIN fs
          /\ fs' = Unlink(fs, path)
          /\ io' = "removed"
          /\ armed' = <<>>
          /\ died' = ""
          /\ replaced' = replaced \ {path}
       \/ /\ io' = "remove_err"
          /\ UNCHANGED <<fs, armed, died, replaced>>
    /\ UNCHANGED <<host, ctx, data, slept, ret, fret, consumed, lastFail>>

\* LoadReturn with a bug: the result of fs::remove_file is not looked at.
LoadReturnIgnoresRemoveError ==
    /\ pc = "load_remove_done"
    /\ pc' = "idle"
    /\ ret' = Return("some", ctx, "")
    /\ consumed' = IF consumed < 2 THEN consumed + 1 ELSE consumed
    /\ NoLocals
    /\ UNCHANGED <<fs, host, fret, armed, died, lastFail, replaced>>

\* load_context resumes with the result of fs::remove_file and returns.
LoadReturn ==
    /\ pc = "load_remove_done"
    /\ pc' = "idle"
    /\ IF io = "removed"
       THEN /\ ret' = Return("some", ctx, "")
            /\ consumed' = IF consumed < 2 THEN consumed + 1 ELSE consumed
       ELSE /\ ret' = Return("err", NoCtx, "unable to remove reboot context")
            /\ UNCHANGED consumed
    /\ NoLocals
    /\ UNCHANGED <<fs, host, fret, armed, died, lastFail, replaced>>

(* ---------------------- reboot controller: invoke ---------------------- *)

\* invoke is entered.
InvokeStart ==
    /\ pc = "idle"
    /\ pc' = "invoke_cmd"
    /\ ret' = Pending("invoke")
    /\ UNCHANGED <<fs, host, locals, fret, history>>

\* The exit statuses of the reboot command: success and failure.
ExitStatuses == {"exit_0", "exit_1"}

\* InvokeCommand with a bug: the context file is cleared before the reboot.
InvokeCommandClearsContext ==
    /\ pc = "invoke_cmd"
    /\ \/ /\ pc' = "idle"
          /\ ret' = Return("err", NoCtx, "spawn")
          /\ UNCHANGED <<fs, io>>
       \/ /\ pc' = "invoke_wait"
          /\ io' \in ExitStatuses
          /\ fs' = Unlink(fs, path)
          /\ UNCHANGED ret
    /\ UNCHANGED <<host, ctx, data, slept, fret, history>>

\* InvokeCommand with a bug: a command that exits with a failure status
\* makes invoke return at once.
InvokeCommandChecksStatus ==
    /\ pc = "invoke_cmd"
    /\ \/ /\ pc' = "idle"
          /\ ret' = Return("err", NoCtx, "spawn")
          /\ UNCHANGED io
       \/ /\ pc' = "idle"
          /\ ret' = Return("err", NoCtx, "exit_1")
          /\ UNCHANGED io
       \/ /\ pc' = "invoke_wait"
          /\ io' = "exit_0"
          /\ UNCHANGED ret
    /\ UNCHANGED <<fs, host, ctx, data, slept, fret, history>>

\* Command::new("reboot").arg("-f").status()?: the program cannot be
\* launched and ? returns the error, or it runs and exits with some status,
\* which is dropped.
InvokeCommand ==
    /\ pc = "invoke_cmd"
    /\ \/ /\ pc' = "idle"
          /\ ret' = Return("err", NoCtx, "spawn")
          /\ UNCHANGED io
       \/ /\ pc' = "invoke_wait"
          /\ io' \in ExitStatuses
          /\ UNCHANGED ret
    /\ UNCHANGED <<fs, host, ctx, data, slept, fret, history>>

\* thread::sleep(d): time passes.
Tick ==
    /\ pc = "invoke_wait"
    /\ slept < RebootWaitSecs
    /\ slept' = IF slept + TickSecs < RebootWaitSecs
                THEN slept + TickSecs
                ELSE RebootWaitSecs
    /\ UNCHANGED <<fs, host, pc, ctx, data, io, ret, fret, history>>

\* wait_for_reboot with a bug: the context file is removed when the reboot
\* did not happen.
wait_for_reboot_removes_context ==
    /\ pc = "invoke_wait"
    /\ slept = RebootWaitSecs
    /\ pc' = "idle"
    /\ ret' = Return("err", NoCtx, "Failed to reboot in 10 minutes")
    /\ fs' = Unlink(fs, path)
    /\ NoLocals
    /\ UNCHANGED <<host, fret, history>>

\* wait_for_reboot with a bug: it returns Ok(()) after the sleep.
wait_for_reboot_returns_ok ==
    /\ pc = "invoke_wait"
    /\ slept = RebootWaitSecs
    /\ pc' = "idle"
    /\ ret' = Return("ok", NoCtx, "")
    /\ NoLocals
    /\ UNCHANGED <<fs, host, fret, history>>

\* wait_for_reboot after the sleep.
wait_for_reboot ==
    /\ pc = "invoke_wait"
    /\ slept = RebootWaitSecs
    /\ pc' = "idle"
    /\ ret' = Return("err", NoCtx, "Failed to reboot in 10 minutes")
    /\ NoLocals
    /\ UNCHANGED <<fs, host, fret, history>>

(* ------------------------ cancellation and death ----------------------- *)

\* The places where save_context and load_context are suspended with no
\* filesystem operation half done.
SuspensionPoints ==
    {"save_write", "save_write_done",
     "load_read", "load_read_done", "load_remove", "load_remove_done"}

\* The ambient scheduler drops the future of the running call.  A
\* filesystem operation that was issued and has not run is taken not to run.
\* The returned record keeps, as err, the result of the last filesystem
\* operation the call had completed.
Cancel ==
    /\ pc \in SuspensionPoints
    /\ pc' = "idle"
    /\ ret' = Return("cancelled", NoCtx, io)
    /\ NoLocals
    /\ UNCHANGED <<fs, host, fret, history>>

\* The agent process dies (a crash, a kill, the reboot that invoke asked
\* for) and a new one starts: the memory is lost, the files stay.
Crash ==
    /\ pc' = "idle"
    /\ NoLocals
    /\ ret' = NoRet
    /\ fret' = NoFRet
    /\ died' = IF armed = <<>> THEN died
                ELSE IF pc \in {"invoke_cmd", "invoke_wait"} THEN "invoke"
                ELSE "outside"
    /\ UNCHANGED <<fs, host, armed, consumed, lastFail, replaced>>

(* ---------------------------- failure store ---------------------------- *)

\* save_failure(err, machine_id): fs::write creates or truncates the file,
\* or cannot (k = -1 below is written as the first disjunct), then writes
\* the message, all of it or, when the write fails, its first k bytes.
save_failure(e, m) ==
    LET message == DebugFmt(e)
        fpath   == failure_path(m)
    IN  \/ /\ fret' = FRet("save_failure", m, "err", <<>>)
           /\ UNCHANGED <<fs, lastFail, replaced>>
        \/ \E k \in 0 .. Len(message) :
              /\ fs' = WriteAt0(Truncate(fs, fpath), fpath, SubSeq(message, 1, k))
              /\ fret' = FRet("save_failure", m,
                              IF k = Len(message) THEN "ok" ELSE "err", <<>>)
              /\ lastFail' = [lastFail EXCEPT ![m] =
                                 IF k = Len(message) THEN <<e>> ELSE <<>>]
              /\ replaced' = IF fpath \in DOMAIN fs /\ k = Len(message)
                              THEN replaced \cup {fpath}
                              ELSE replaced \ {fpath}

\* read_file_lossy with a bug: a file that is not there reads as empty.
read_file_lossy_missing_is_empty(p) ==
    IF p \notin DOMAIN disk
    THEN {[ok |-> TRUE, text |-> <<>>]}
    ELSE {[ok |-> TRUE, text |-> from_utf8_lossy(disk[p])],
          [ok |-> FALSE, text |-> <<>>]}

\* read_file_lossy(path): fs::read fails, as it always does on what is not
\* a regular file, or yields the bytes, which are then decoded.
read_file_lossy(p) ==
    IF p \notin DOMAIN disk
    THEN {[ok |-> FALSE, text |-> <<>>]}
    ELSE {[ok |-> TRUE, text |-> from_utf8_lossy(disk[p])],
          [ok |-> FALSE, text |-> <<>>]}

\* read_failure with a bug: the record is removed once it has been read.
read_failure_consumes(m) ==
    /\ \E r \in read_file_lossy(failure_path(m)) :
          /\ fret' = FRet("read_failure", m, IF r.ok THEN "ok" ELSE "err", r.text)
          /\ fs' = IF r.ok THEN Unlink(fs, failure_path(m)) ELSE fs
    /\ UNCHANGED <<lastFail, replaced>>

\* read_failure(machine_id)
read_failure(m) ==
    /\ \E r \in read_file_lossy(failure_path(m)) :
          fret' = FRet("read_failure", m, IF r.ok THEN "ok" ELSE "err", r.text)
    /\ UNCHANGED <<fs, lastFail, replaced>>

\* join with a bug: the strings are concatenated with nothing between them.
RECURSIVE join_without_separator(_, _)
join_without_separator(results, sep) ==
    IF results = <<>>
    THEN <<>>
    ELSE results[1] \o join_without_separator(Tail(results), sep)

\* results.join(sep): the strings of results with sep between each two.
RECURSIVE join(_, _)
join(results, sep) ==
    IF results = <<>>
    THEN <<>>
    ELSE IF Len(results) = 1
         THEN results[1]
         ELSE results[1] \o <<sep>> \o join(Tail(results), sep)

\* The loop of read_logs with a bug: an entry that cannot be read is left
\* out and the loop goes on.
RECURSIVE ReadLogsFromSkipsUnreadable(_, _)
ReadLogsFromSkipsUnreadable(i, results) ==
    IF i > Len(logs)
    THEN {[ok |-> TRUE, text |-> join(results, "\n\n")]}
    ELSE LET p == Join(onefuzz_logs, logs[i].name)
         IN  UNION { IF r.ok
                     THEN ReadLogsFromSkipsUnreadable(i + 1,
                              results \o << <<PathDisplay(p)>>, r.text >>)
                     ELSE ReadLogsFromSkipsUnreadable(i + 1, results) :
                     r \in read_file_lossy(p) }

\* The loop of read_logs from entry i on, with the strings pushed so far:
\* the entry cannot be had, or its file cannot be read, and the call fails
\* with nothing of results; or its path and its content are pushed.  After
\* the last entry the strings are joined.  The value is the set of the
\* results the call can have.
RECURSIVE ReadLogsFrom(_, _)
ReadLogsFrom(i, results) ==
    IF i > Len(logs)
    THEN {[ok |-> TRUE, text |-> join(results, "\n\n")]}
    ELSE LET p == Join(onefuzz_logs, logs[i].name)
         IN  {[ok |-> FALSE, text |-> <<>>]} \cup
             UNION { IF r.ok
                     THEN ReadLogsFrom(i + 1,
                              results \o << <<PathDisplay(p)>>, r.text >>)
                     ELSE {[ok |-> FALSE, text |-> <<>>]} :
                     r \in read_file_lossy(p) }

\* read_logs(): fs::read_dir fails, or the loop runs over the entries.
read_logs ==
    /\ \E r \in {[ok |-> FALSE, text |-> <<>>]} \cup ReadLogsFrom(1, <<>>) :
          fret' = FRet("read_logs", 0, IF r.ok THEN "ok" ELSE "err", r.text)
    /\ UNCHANGED <<fs, lastFail, replaced>>

\* The outer agent hands the failure store the machine id of its host, the
\* one its Reboot value was made with.
SaveFailure ==
    /\ \E e \in Errors : save_failure(e, machine_id)
    /\ UNCHANGED <<host, pc, locals, ret, armed, consumed, died>>

ReadFailure ==
    /\ read_failure(machine_id)
    /\ UNCHANGED <<host, pc, locals, ret, armed, consumed, died>>

ReadLogs ==
    /\ read_logs
    /\ UNCHANGED <<host, pc, locals, ret, armed, consumed, died>>

(* --------------------------- specification ----------------------------- *)

\* The steps of the reboot controller and the calls of the failure store,
\* interleaved, with cancellation and process death.
Next ==
    \/ \E w \in WorkSetValues : SaveStart(RebootContext(w))
    \/ SaveOpen
    \/ SaveWriteAll
    \/ SaveReturn
    \/ LoadStart
    \/ LoadRead
    \/ LoadParse
    \/ LoadRemove
    \/ LoadReturn
    \/ InvokeStart
    \/ InvokeCommand
    \/ Tick
    \/ wait_for_reboot
    \/ Cancel
    \/ Crash
    \/ SaveFailure
    \/ ReadFailure
    \/ ReadLogs

Spec == Init /\ [][Next]_vars

\* The failure store alone, called for any machine id (a supervisor reads
\* the records of the machines that share the StateRoot), over every
\* LogRoot of LogDirs; the agent process may die between the calls.
StoreSave ==
    /\ \E m \in Machines, e \in Errors : save_failure(e, m)
    /\ UNCHANGED <<host, pc, locals, ret, armed, consumed, died>>

StoreRead ==
    /\ \E m \in Machines : read_failure(m)
    /\ UNCHANGED <<host, pc, locals, ret, armed, consumed, died>>

StoreNext ==
    \/ StoreSave
    \/ StoreRead
    \/ ReadLogs
    \/ Crash

StoreSpec == StoreInit /\ [][StoreNext]_vars

\* The states of the reboot controller, as the outer agent that follows the
\* ordering contract passes through them.  A call that fails leaves the
\* controller in the state it was in.

\* The process has started and its load_context has not returned a value.
ColdStart ==
    \/ ret.op = "none"
    \/ ret.op = "load" /\ ret.kind \in {"pending", "err", "cancelled"}

\* The load_context of this process has returned, and no save_context has
\* returned Ok since.
Idle ==
    /\ pc = "idle"
    /\ \/ ret.op = "load" /\ ret.kind \in {"absent", "some"}
       \/ ret.op = "save" /\ ret.kind \in {"err", "cancelled"}

\* save_context has returned Ok and the reboot command has not been issued.
Armed ==
    \/ pc = "idle" /\ ret.op = "save" /\ ret.kind = "ok"
    \/ pc = "invoke_cmd"
    \/ pc = "idle" /\ ret.op = "invoke" /\ ret.err = "spawn"

\* The reboot command has been issued and the process is still alive.
RebootPending ==
    \/ pc = "invoke_wait"
    \/ pc = "idle" /\ ret.op = "invoke" /\ ret.err # "spawn"

\* The outer agent under the ordering contract: load_context is the first
\* call of a process and is called once, save_context is called when the
\* controller is idle, invoke when it is armed.
AgentLoad == ret.op = "none" /\ LoadStart

AgentSave == Idle /\ \E w \in WorkSetValues : SaveStart(RebootContext(w))

AgentInvoke == Armed /\ InvokeStart

AgentNext ==
    \/ AgentLoad
    \/ AgentSave
    \/ AgentInvoke
    \/ SaveOpen
    \/ SaveWriteAll
    \/ SaveReturn
    \/ LoadRead
    \/ LoadParse
    \/ LoadRemove
    \/ LoadReturn
    \/ InvokeCommand
    \/ Tick
    \/ wait_for_reboot
    \/ Cancel
    \/ Crash
    \/ SaveFailure
    \/ ReadFailure
    \/ ReadLogs

AgentSpec == Init /\ [][AgentNext]_vars

(* ------------------------------- claims -------------------------------- *)

\* The last reboot-controller call has returned to its caller.
Returned == ret.kind \in {"ok", "absent", "some", "err"}

\* The error is the failure of a filesystem operation of load_context.
LoadIoError ==
    /\ ret.kind = "err"
    /\ ret.err \in {"read", "unable to remove reboot context"}

\* C1: when save_context(c) returned Ok and the next change to the context
\* file is a load_context, that load returns Some(c) and the file is gone
\* afterwards; the only other way it returns is with the error of its own
\* failed read or delete, and then the file still holds the encoding of c.
\* It never returns absent, another context or a parse error.
C1_SaveLoadRoundTrip ==
    (ret.op = "load" /\ Returned /\ ret.from # <<>>) =>
        \/ /\ ret.kind = "some"
           /\ ret.ctx = ret.from[1]
           /\ path \notin DOMAIN fs
        \/ /\ LoadIoError
           /\ path \in DOMAIN fs
           /\ fs[path] = to_vec(ret.from[1]).data

C1_Witness ==
    /\ ret.op = "load"
    /\ ret.kind = "some"
    /\ ret.from = <<RebootContext(NumWorkSets)>>
    /\ ret.ctx = RebootContext(NumWorkSets)
    /\ path \notin DOMAIN fs

\* C2: at most one load_context returns Some between two writes of the
\* context file, and a load_context that returns after one has returned Some,
\* with no write in between, returns absent.
C2_AtMostOnce ==
    /\ consumed <= 1
    /\ (consumed = 1 /\ ret.op = "load" /\ Returned) =>
           ret.kind \in {"some", "absent"}
    /\ consumed = 1 => path \notin DOMAIN fs

C2_Witness ==
    /\ consumed = 1
    /\ ret.op = "load"
    /\ ret.kind = "absent"

\* C3: a load_context whose fs::remove_file failed returns the error of the
\* removal and not the parsed value; whenever load_context has returned
\* Some(c), the file is gone.
C3_NoValueWithoutDelete ==
    [][ /\ (ret'.op = "load" /\ ret'.kind = "some") => path' \notin DOMAIN fs'
        /\ (pc = "load_remove_done" /\ io = "remove_err" /\ pc' = "idle"
                /\ ret'.kind \notin {"none", "cancelled"}) =>
              /\ ret'.kind = "err"
              /\ ret'.err = "unable to remove reboot context"
              /\ path \in DOMAIN fs' ]_vars

C3_Witness ==
    /\ ret.op = "load"
    /\ ret.kind = "err"
    /\ ret.err = "unable to remove reboot context"
    /\ path \in DOMAIN fs
    /\ from_slice(fs[path]).ok

\* The load_context that is running has found no file at its path.
NoFileSeen ==
    \/ pc = "load_read" /\ path \notin DOMAIN fs
    \/ pc = "load_read_done" /\ io = "NotFound"

\* C4: a load_context that finds no context file returns absent, which is
\* not an error, and none of its steps creates, changes or deletes a file.
C4_ColdStartNoChange ==
    [][ /\ (pc = "idle" /\ pc' = "load_read") => fs' = fs
        /\ (NoFileSeen /\ pc' # pc) =>
              /\ fs' = fs
              /\ pc' # "idle" => NoFileSeen'
              /\ (pc' = "idle" /\ ret'.kind \notin {"none", "cancelled"}) =>
                    (ret'.op = "load" /\ ret'.kind = "absent") ]_vars

C4_Witness ==
    /\ ret.op = "load"
    /\ ret.kind = "absent"
    /\ DOMAIN fs = {}

\* The context file exists and its bytes do not parse as a RebootContext.
Corrupt(f) == path \in DOMAIN f /\ ~from_slice(f[path]).ok

\* save_context is about to write the file, or is writing it.
SaveWrites == pc \in {"save_write", "save_writing"}

\* C5: while the context file holds bytes that do not parse, every
\* load_context that returns returns an error (the parse error when its read
\* succeeded), and no step other than the write of a save_context changes
\* or removes the file.
C5_CorruptStays ==
    [][ (Corrupt(fs) /\ ~SaveWrites) =>
            /\ path \in DOMAIN fs'
            /\ fs'[path] = fs[path]
            /\ (ret'.op = "load" /\ ret'.kind \in {"ok", "absent", "some", "err"}) =>
                  ret'.kind = "err"
            /\ (pc = "load_read_done" /\ io = "read_ok" /\ pc' = "idle"
                    /\ ret'.kind \notin {"none", "cancelled"}) =>
                  ret'.err = "parse" ]_vars

C5_Witness ==
    /\ ret.op = "load"
    /\ ret.kind = "err"
    /\ ret.err = "parse"
    /\ Corrupt(fs)

\* C6: when the process dies after save_context(c) returned Ok (outside
\* invoke or inside it) and the context file is not changed before the next
\* load_context, that load returns Some(c); the only other way it returns is
\* with the error of its own failed read or delete.
C6_SurvivesProcessDeath ==
    (ret.op = "load" /\ Returned /\ ret.from # <<>> /\ ret.restarted # "") =>
        \/ ret.kind = "some" /\ ret.ctx = ret.from[1]
        \/ LoadIoError

C6_Witness ==
    /\ ret.op = "load"
    /\ ret.kind = "some"
    /\ ret.restarted = "invoke"
    /\ ret.from = <<ret.ctx>>

\* C7: a cancelled load_context either has completed both its read and its
\* delete or had no effect: the file is never deleted with the context
\* delivered to no caller, and the context is never delivered with the file
\* still there.
C7_CancelAtomic ==
    /\ ~(ret.op = "load" /\ ret.kind = "cancelled" /\ ret.err = "removed")
    /\ (ret.op = "load" /\ ret.kind = "some") => path \notin DOMAIN fs

\* C8: invoke never returns Ok: it returns the launch error of the reboot
\* command, or, once the command has run, the timeout error, and that one
\* only after the whole wait has been slept.
C8_InvokeNeverSucceeds ==
    [][ /\ (ret'.op = "invoke" /\ ret'.kind # "pending") => ret'.kind = "err"
        /\ (pc = "invoke_wait" /\ pc' = "idle" /\ ret'.kind # "none") =>
              /\ slept = RebootWaitSecs
              /\ ret'.kind = "err"
              /\ ret'.err = "Failed to reboot in 10 minutes"
        /\ (pc = "invoke_wait" /\ pc' = pc) => slept' >= slept ]_vars

C8_Witness ==
    /\ ret.op = "invoke"
    /\ ret.kind = "err"
    /\ ret.err = "Failed to reboot in 10 minutes"

\* Every message of the error chain e occurs in text.
ContainsChain(text, e) ==
    \A i \in 1 .. Len(e) : \E j \in 1 .. Len(text) : text[j] = e[i]

\* C9: when the failure file of m was last written by a save_failure(e, m)
\* that returned Ok, a read_failure(m) that returns Ok returns exactly the
\* rendering of e, which contains the message and every cause of e, and
\* nothing of what the file held before.
C9_FailureRoundTrip ==
    (fret.op = "read_failure" /\ fret.kind = "ok" /\ lastFail[fret.m] # <<>>) =>
        /\ fret.text = DebugFmt(lastFail[fret.m][1])
        /\ ContainsChain(fret.text, lastFail[fret.m][1])

C9_Witness ==
    /\ fret.op = "read_failure"
    /\ fret.kind = "ok"
    /\ lastFail[fret.m] = << <<"oops">> >>
    /\ failure_path(fret.m) \in replaced
    /\ fret.text = <<"oops">>

\* The file at p is a RebootContext file of machine m.
IsRebootContextFile(p, m) ==
    p[2][1] = "reboot_context_" /\ p[2][2] = UuidDisplay(m)

\* The file at p is a FailureRecord file of machine m.
IsFailureFile(p, m) ==
    p[2][1] = "onefuzz-agent-failure-" /\ p[2][2] = UuidDisplay(m)

\* C10: for every machine there is at most one RebootContext file and at
\* most one FailureRecord file; a context file last written by a
\* save_context(c) that returned Ok holds exactly the encoding of c, and a
\* failure file last written by a save_failure(e) that returned Ok holds
\* exactly the rendering of e.
C10_LastWriterWins ==
    /\ \A m \in Machines :
          /\ Cardinality({p \in DOMAIN fs : IsRebootContextFile(p, m)}) <= 1
          /\ Cardinality({p \in DOMAIN fs : IsFailureFile(p, m)}) <= 1
          /\ lastFail[m] # <<>> =>
                /\ failure_path(m) \in DOMAIN fs
                /\ fs[failure_path(m)] = DebugFmt(lastFail[m][1])
    /\ armed # <<>> =>
          /\ path \in DOMAIN fs
          /\ fs[path] = to_vec(armed[1]).data
          /\ from_slice(fs[path]).ok
          /\ from_slice(fs[path]).ctx = armed[1]

C10_Witness ==
    /\ armed # <<>>
    /\ path \in replaced
    /\ lastFail[machine_id] # <<>>
    /\ failure_path(machine_id) \in replaced

\* C11: read_logs returns no partial result: a call that returns an error
\* returns none of the contents it had read, and a call returns a string
\* only when every entry of LogRoot is a regular file that it has read, so
\* that the string holds the path of each of them.
C11_NoPartialResult ==
    fret.op = "read_logs" =>
        /\ fret.kind = "err" => fret.text = <<>>
        /\ fret.kind = "ok" =>
              \A i \in 1 .. Len(logs) :
                 /\ logs[i].kind = "file"
                 /\ \E j \in 1 .. Len(fret.text) :
                       fret.text[j] = PathDisplay(Join(onefuzz_logs, logs[i].name))

C11_Witness ==
    /\ fret.op = "read_logs"
    /\ fret.kind = "err"
    /\ fret.text = <<>>
    /\ Len(logs) = 2
    /\ logs[1].kind = "file"
    /\ logs[1].bytes # <<>>
    /\ logs[2].kind = "dir"

\* The place in the string of read_logs where the path of entry i stands:
\* each entry before it takes its path, a separator, its content and a
\* separator.
RECURSIVE LogStart(_)
LogStart(i) ==
    IF i = 1 THEN 1 ELSE LogStart(i - 1) + Len(logs[i - 1].bytes) + 3

\* C12: on success read_logs returns one string that holds, for every entry
\* of LogRoot in the order of enumeration and nothing else, the path of the
\* file on a line of its own, then its lossily decoded content, with a blank
\* line between the content and the path of the next file.
C12_LogsLayout ==
    (fret.op = "read_logs" /\ fret.kind = "ok") =>
        LET t == fret.text
            n == Len(logs)
        IN  /\ Len(t) = IF n = 0 THEN 0 ELSE LogStart(n + 1) - 2
            /\ \A i \in 1 .. n :
                  LET at  == LogStart(i)
                      len == Len(logs[i].bytes)
                  IN  /\ t[at] = PathDisplay(Join(onefuzz_logs, logs[i].name))
                      /\ t[at + 1] = "\n\n"
                      /\ SubSeq(t, at + 2, at + 1 + len) = from_utf8_lossy(logs[i].bytes)
                      /\ i < n => t[at + 2 + len] = "\n\n"

C12_Witness ==
    /\ logs = MixedLogs
    /\ fret.op = "read_logs"
    /\ fret.kind = "ok"
    /\ fret.text = << "onefuzz_logs/a.log", "\n\n", "hello", "\n\n",
                      "onefuzz_logs/b.log", "\n\n", "U+FFFD", "U+FFFD" >>

\* C13: path resolution is injective in the machine id: two different
\* machine ids have different failure paths and different reboot context
\* paths under the same StateRoot, so the records of the machines that share
\* it are kept apart: each machine's record is the one last saved for it.
C13_PathsInjective ==
    /\ \A m1, m2 \in Machines :
          m1 # m2 =>
             /\ failure_path(m1) # failure_path(m2)
             /\ reboot_context_path(m1) # reboot_context_path(m2)
    /\ \A m \in Machines :
          lastFail[m] # <<>> =>
             /\ failure_path(m) \in DOMAIN fs
             /\ fs[failure_path(m)] = DebugFmt(lastFail[m][1])

C13_Witness ==
    /\ \A m \in Machines : lastFail[m] # <<>>
    /\ \E m1, m2 \in Machines :
          /\ m1 # m2
          /\ lastFail[m1] # lastFail[m2]
          /\ fs[failure_path(m1)] # fs[failure_path(m2)]

\* What belongs to the running call of the reboot controller.
RebootVars == <<pc, ctx, data, io, slept, ret>>

\* The file at p is the same in the filesystems f and g: in both or in
\* neither, and with the same bytes.
SameFile(f, g, p) ==
    /\ p \in DOMAIN f <=> p \in DOMAIN g
    /\ p \in DOMAIN f => f[p] = g[p]

\* C14: the failure store and the reboot controller are independent under
\* every interleaving: a step of the failure store (one that is not a step
\* of the reboot controller's call) changes the RebootContext file of no
\* machine, a step of save_context, load_context or invoke changes the
\* FailureRecord file of no machine, and no path is both a RebootContext
\* path and a FailureRecord path.
C14_Independent ==
    [][ /\ RebootVars' = RebootVars =>
              \A m \in Machines : SameFile(fs, fs', reboot_context_path(m))
        /\ RebootVars' # RebootVars =>
              \A m \in Machines : SameFile(fs, fs', failure_path(m))
        /\ \A m1, m2 \in Machines :
              reboot_context_path(m1) # failure_path(m2) ]_vars

C14_Witness ==
    /\ pc = "load_remove"
    /\ armed # <<>>
    /\ fret.op = "save_failure"
    /\ fret.kind = "ok"
    /\ path \in DOMAIN fs
    /\ fs[path] = to_vec(armed[1]).data
    /\ fs[failure_path(machine_id)] = DebugFmt(lastFail[machine_id][1])

\* C15: a read_failure(m) that finds no FailureRecord file of m returns an
\* error, not an empty or absent result (load_context returns absent in the
\* like case), and it creates, changes and removes no file.
C15_MissingRecordIsError ==
    [][ (/\ RebootVars' = RebootVars
         /\ fret'.op = "read_failure"
         /\ failure_path(fret'.m) \notin DOMAIN fs) =>
            /\ fret'.kind = "err"
            /\ fret'.text = <<>>
            /\ fs' = fs ]_vars

C15_Witness ==
    /\ fret.op = "read_failure"
    /\ fret.kind = "err"
    /\ failure_path(fret.m) \notin DOMAIN fs
    /\ ret.op = "load"
    /\ ret.kind = "absent"
    /\ DOMAIN fs = {}

\* C16: under the ordering contract the RebootContext file exists in the
\* states Armed and RebootPending, may exist at ColdStart before the load,
\* exists in no other state but these (a save_context that is running is on
\* its way to Armed), and does not exist in Idle; a load_context at startup
\* that returns a value or absent leaves the controller in Idle.
C16_StateMachine ==
    /\ (Armed \/ RebootPending) => path \in DOMAIN fs
    /\ Idle => path \notin DOMAIN fs
    /\ path \in DOMAIN fs =>
          \/ Armed
          \/ RebootPending
          \/ ColdStart
          \/ ret.op = "save" /\ ret.kind = "pending"
    /\ (ret.op = "load" /\ ret.kind \in {"absent", "some"}) => Idle

\* C17: no operation deletes a FailureRecord: a save_failure(e, m) that
\* returns Ok leaves a FailureRecord file of m, and a FailureRecord file
\* that exists still exists after every step of save_failure, read_failure,
\* read_logs, save_context, load_context and invoke, and after the death of
\* the process.
C17_FailureRecordStays ==
    [][ \A m \in Machines :
           /\ failure_path(m) \in DOMAIN fs => failure_path(m) \in DOMAIN fs'
           /\ lastFail'[m] # <<>> => failure_path(m) \in DOMAIN fs' ]_vars

C17_Witness ==
    /\ lastFail[machine_id] # <<>>
    /\ failure_path(machine_id) \in DOMAIN fs
    /\ fret.op = "read_failure"
    /\ fret.kind = "ok"
    /\ ret.op = "load"
    /\ ret.kind = "some"
    /\ path \notin DOMAIN fs

\* C20: invoke enters the wait only after the reboot command has been run:
\* when the program cannot be launched invoke returns that error with no
\* time slept; when it was launched invoke sleeps the whole wait and then
\* returns the timeout error, whatever the exit status of the command.
C20_WaitOnlyAfterCommand ==
    [][ /\ pc = "invoke_cmd" => slept = 0
        /\ (pc = "invoke_cmd" /\ pc' = "idle" /\ ret'.kind # "none") =>
              /\ ret'.kind = "err"
              /\ ret'.err = "spawn"
        /\ (pc # "invoke_wait" /\ pc' = "invoke_wait") =>
              /\ pc = "invoke_cmd"
              /\ io' \in ExitStatuses
              /\ slept' = 0
        /\ (pc = "invoke_wait" /\ pc' = "invoke_wait") => io' = io
        /\ (pc = "invoke_wait" /\ pc' = "idle" /\ ret'.kind # "none") =>
              /\ io \in ExitStatuses
              /\ slept = RebootWaitSecs
              /\ ret'.kind = "err"
              /\ ret'.err = "Failed to reboot in 10 minutes" ]_vars

C20_Witness ==
    /\ pc = "invoke_wait"
    /\ io = "exit_1"
    /\ slept = RebootWaitSecs
    /\ ret.op = "invoke"
    /\ ret.kind = "pending"

\* C18: invoke leaves the RebootContext file unchanged: no step taken while
\* invoke runs creates, changes or removes it, so when invoke returns an
\* error after a save_context(c) that returned Ok, the file still holds the
\* encoding of c; the load_context called next starts from that file, and
\* returns Some(c) unless its own read or delete fails.
C18_InvokeKeepsContext ==
    [][ /\ pc \in {"invoke_cmd", "invoke_wait"} => SameFile(fs, fs', path)
        /\ (ret'.op = "invoke" /\ ret'.kind = "err" /\ ret'.from # <<>>) =>
              /\ armed' = ret'.from
              /\ path \in DOMAIN fs'
              /\ fs'[path] = to_vec(ret'.from[1]).data
        /\ (ret.op = "invoke" /\ ret.kind = "err" /\ ret.from # <<>>
                /\ pc = "idle" /\ pc' = "load_read") =>
              /\ ret'.from = ret.from
              /\ fs' = fs
        /\ (ret'.op = "load" /\ ret'.from # <<>>
                /\ ret'.kind \in {"absent", "some", "err"}) =>
              \/ ret'.kind = "some" /\ ret'.ctx = ret'.from[1]
              \/ /\ ret'.kind = "err"
                 /\ ret'.err \in {"read", "unable to remove reboot context"} ]_vars

C18_Witness ==
    /\ pc = "idle"
    /\ ret.op = "invoke"
    /\ ret.kind = "err"
    /\ ret.err = "Failed to reboot in 10 minutes"
    /\ ret.from = <<RebootContext(1)>>
    /\ fs[path] = to_vec(RebootContext(1)).data

\* C19: save_context encodes before it writes: a call whose encoding fails
\* returns the error with the file, present or not, exactly as it was, and a
\* call that has reached its write holds the encoding of its argument.
C19_EncodeBeforeWrite ==
    [][ /\ (ret' # ret /\ ret'.op = "save" /\ ret'.err = "serialize") =>
              /\ pc = "idle"
              /\ pc' = "idle"
              /\ ret'.kind = "err"
              /\ fs' = fs
              /\ armed' = armed
        /\ pc' \in {"save_write", "save_writing", "save_write_done"} =>
              /\ to_vec(ctx').ok
              /\ data' = to_vec(ctx').data ]_vars

C19_Witness ==
    /\ ret.op = "save"
    /\ ret.kind = "err"
    /\ ret.err = "serialize"
    /\ ret.from # <<>>
    /\ armed = ret.from
    /\ fs[path] = to_vec(ret.from[1]).data

=============================================================================
